---- MODULE Spec2Model ----
(***************************************************************************)
(* Table browser of INCIScraper's UI: the route handlers                   *)
(*   GET  /api/tables/{table}?limit=&offset=   (page read)                 *)
(*   POST /api/tables/{table}                  (batch update)              *)
(* and lib/db (getTableMetadata), over a SQLite database.                  *)
(*                                                                         *)
(* Text is a sequence of one-character strings, so that trim, case         *)
(* folding, substring tests and number parsing are computed, not assumed.  *)
(* A JSON / SQL scalar is a tagged record: Null, Num(n), Str(s), Bool(b).  *)
(***************************************************************************)
EXTENDS Integers, Sequences, FiniteSets, TLC

VARIABLES db, req, resp, trace, prevReq, prevResp, nreq, proc,
          tables, selectedTable, tableData, isLoading, status, editedRows,
          limit, offset, reloadKey, fetches, nfetch, nedits

(* The service and its storage *)
serverVars == <<db, req, resp, trace, prevReq, prevResp, nreq, proc>>

(* The page (HomePage): its state hooks, the requests it has in flight,    *)
(* and the counts of requests issued and of cells edited *)
gridVars == <<tables, selectedTable, tableData, isLoading, status, editedRows,
              limit, offset, reloadKey, fetches, nfetch, nedits>>

vars == <<db, req, resp, trace, prevReq, prevResp, nreq, proc,
          tables, selectedTable, tableData, isLoading, status, editedRows,
          limit, offset, reloadKey, fetches, nfetch, nedits>>

-----------------------------------------------------------------------------
(* Bounds of the model *)

MaxBatch == 2
MaxReads == 2
MaxFetches == 4
MaxEdits == 2
MaxRequests == 3

-----------------------------------------------------------------------------
(* Scalars *)

Null == [t |-> "null"]
Num(n) == [t |-> "num", n |-> n]
Str(s) == [t |-> "str", s |-> s]
Bool(b) == [t |-> "bool", b |-> b]
NaN == [t |-> "nan"]

IsStr(v) == v.t = "str"
IsNum(v) == v.t = "num"

-----------------------------------------------------------------------------
(* Characters and text *)

UpperLetters == <<"A","B","C","D","E","F","G","H","I","J","K","L","M",
                  "N","O","P","Q","R","S","T","U","V","W","X","Y","Z">>
LowerLetters == <<"a","b","c","d","e","f","g","h","i","j","k","l","m",
                  "n","o","p","q","r","s","t","u","v","w","x","y","z">>
Digits == <<"0","1","2","3","4","5","6","7","8","9">>

IndexIn(seq, c) == CHOOSE i \in 1..Len(seq) : seq[i] = c
Occurs(seq, c) == \E i \in 1..Len(seq) : seq[i] = c

IsUpperChar(c) == Occurs(UpperLetters, c)
IsLowerChar(c) == Occurs(LowerLetters, c)
IsDigitChar(c) == Occurs(Digits, c)
DigitVal(c) == IndexIn(Digits, c) - 1

ToLowerChar(c) == IF IsUpperChar(c) THEN LowerLetters[IndexIn(UpperLetters, c)] ELSE c
ToUpperChar(c) == IF IsLowerChar(c) THEN UpperLetters[IndexIn(LowerLetters, c)] ELSE c

toLowerCase(s) == [i \in 1..Len(s) |-> ToLowerChar(s[i])]
toUpperCase(s) == [i \in 1..Len(s) |-> ToUpperChar(s[i])]

IsWhiteSpace(c) == c \in {" ", "\t", "\n", "\r"}

RECURSIVE TrimStart(_)
TrimStart(s) ==
    IF s = <<>> THEN <<>>
    ELSE IF IsWhiteSpace(Head(s)) THEN TrimStart(Tail(s)) ELSE s

RECURSIVE TrimEnd(_)
TrimEnd(s) ==
    IF s = <<>> THEN <<>>
    ELSE IF IsWhiteSpace(s[Len(s)]) THEN TrimEnd(SubSeq(s, 1, Len(s) - 1)) ELSE s

trim(s) == TrimEnd(TrimStart(s))

(* String.prototype.includes *)
includes(s, sub) ==
    \E i \in 0..(Len(s) - Len(sub)) : SubSeq(s, i + 1, i + Len(sub)) = sub

IsAlnumUnderscore(c) == IsUpperChar(c) \/ IsLowerChar(c) \/ IsDigitChar(c) \/ c = "_"

(* Value of a non-empty run of decimal digits *)
RECURSIVE DigitsValue(_)
DigitsValue(s) ==
    IF s = <<>> THEN 0
    ELSE 10 * DigitsValue(SubSeq(s, 1, Len(s) - 1)) + DigitVal(s[Len(s)])

AllDigits(s) == s # <<>> /\ \A i \in 1..Len(s) : IsDigitChar(s[i])

(* Number(text) of JavaScript on the texts of this model: surrounding      *)
(* white space is ignored, the empty text is 0, an optionally signed run   *)
(* of decimal digits is its value, anything else is NaN.  (No text of the  *)
(* model has a decimal point, an exponent, a radix prefix or "Infinity".)  *)
NumberOfText(text) ==
    LET Parse(s) ==
            IF s = <<>> THEN Num(0)
            ELSE IF AllDigits(s) THEN Num(DigitsValue(s))
            ELSE IF Head(s) = "-" /\ AllDigits(Tail(s)) THEN Num(0 - DigitsValue(Tail(s)))
            ELSE IF Head(s) = "+" /\ AllDigits(Tail(s)) THEN Num(DigitsValue(Tail(s)))
            ELSE NaN
    IN  Parse(trim(text))

(* String(number) for an integer *)
RECURSIVE NatToText(_)
NatToText(n) ==
    IF n < 10 THEN <<Digits[n + 1]>>
    ELSE NatToText(n \div 10) \o <<Digits[(n % 10) + 1]>>

IntToText(n) == IF n < 0 THEN <<"-">> \o NatToText(0 - n) ELSE NatToText(n)

-----------------------------------------------------------------------------
(* Route helpers (app/api/tables/[table]/route.ts) *)

txt_null == <<"N","U","L","L">>
txt_int == <<"i","n","t">>
txt_real == <<"r","e","a","l">>
txt_floa == <<"f","l","o","a">>
txt_doub == <<"d","o","u","b">>
txt_bool == <<"b","o","o","l">>
txt_char == <<"c","h","a","r">>
txt_text == <<"t","e","x","t">>
txt_clob == <<"c","l","o","b">>
txt_blob == <<"b","l","o","b">>
(* The list without "yes" *)
TrueWordsNoYes == { <<"1">>, <<"t","r","u","e">>, <<"o","n">> }

TrueWords == { <<"1">>, <<"t","r","u","e">>, <<"o","n">>, <<"y","e","s">> }
FalseWords == { <<"0">>, <<"f","a","l","s","e">>, <<"o","f","f">>, <<"n","o">> }

TYPE_INTEGER == <<"I","N","T","E","G","E","R">>
TYPE_TEXT == <<"T","E","X","T">>
TYPE_BOOLEAN == <<"B","O","O","L","E","A","N">>
TYPE_REAL == <<"R","E","A","L">>
TYPE_DATE == <<"D","A","T","E">>
TYPE_NONE == <<>>

ROWID_FIELD == "__rowid__"

(* The pattern without its anchors: any name with one allowed character *)
sanitizeTableNameUnanchored(table) ==
    IF \E i \in 1..Len(table) : IsAlnumUnderscore(table[i])
    THEN [ok |-> TRUE, name |-> table]
    ELSE [ok |-> FALSE]

(* /^[A-Za-z0-9_]+$/ : the name itself, or null *)
sanitizeTableName(table) ==
    IF table # <<>> /\ \A i \in 1..Len(table) : IsAlnumUnderscore(table[i])
    THEN [ok |-> TRUE, name |-> table]
    ELSE [ok |-> FALSE]

(* The literal is recognised in upper case only *)
IsNullLiteralUpperOnly(trimmed) == trimmed = txt_null

(* trimmed.toUpperCase() === "NULL" *)
IsNullLiteral(trimmed) == toUpperCase(trimmed) = txt_null

(* The test without "doub" *)
IsRealTypeNoDoub(lower) == includes(lower, txt_real) \/ includes(lower, txt_floa)

(* lower.includes("real") || lower.includes("floa") || lower.includes("doub") *)
IsRealType(lower) ==
    includes(lower, txt_real) \/ includes(lower, txt_floa) \/ includes(lower, txt_doub)

(* The text is returned without its surrounding white space *)
PassThroughTrimmed(value, trimmed) == Str(trimmed)

(* return value *)
PassThrough(value, trimmed) == value

normalizeValue(value, columnType) ==
    LET Normalized(trimmed, lower, parsed, normalized) ==
            IF IsNullLiteral(trimmed) THEN Null
            ELSE IF includes(lower, txt_int) /\ parsed # NaN THEN parsed
            ELSE IF IsRealType(lower) /\ parsed # NaN THEN parsed
            ELSE IF includes(lower, txt_bool) /\ normalized \in TrueWords THEN Num(1)
            ELSE IF includes(lower, txt_bool) /\ normalized \in FalseWords THEN Num(0)
            ELSE IF trimmed = <<>> /\ lower # <<>> /\ ~includes(lower, txt_char)
                      /\ ~includes(lower, txt_text) /\ ~includes(lower, txt_clob) THEN Null
            ELSE PassThrough(value, trimmed)
    IN  IF IsStr(value)
        THEN Normalized(trim(value.s), toLowerCase(columnType),
                        NumberOfText(trim(value.s)), toLowerCase(trim(value.s)))
        ELSE value

-----------------------------------------------------------------------------
(* Storage: a SQLite table is its declared columns (PRAGMA table_info) and *)
(* its rows, a function from rowid to a record of column values.           *)

ColumnInfo(cid, name, type, notnull, pk) ==
    [cid |-> cid, name |-> name, type |-> type, notnull |-> notnull, pk |-> pk]

ColNames(cols) == {cols[i].name : i \in 1..Len(cols)}
ColByName(cols, name) == cols[CHOOSE i \in 1..Len(cols) : cols[i].name = name]

(* Column affinity of a declared type (SQLite's rules, in their order) *)
Affinity(type) ==
    LET Of(lower) ==
            IF includes(lower, txt_int) THEN "INTEGER"
            ELSE IF includes(lower, txt_char) \/ includes(lower, txt_clob)
                      \/ includes(lower, txt_text)
                 THEN "TEXT"
            ELSE IF lower = <<>> \/ includes(lower, txt_blob) THEN "BLOB"
            ELSE IF includes(lower, txt_real) \/ includes(lower, txt_floa)
                      \/ includes(lower, txt_doub)
                 THEN "REAL"
            ELSE "NUMERIC"
    IN  Of(toLowerCase(type))

(* A text converts under a numeric affinity only when it is a well-formed  *)
(* number; the empty text is not. *)
SqlNumberOfText(s) == IF trim(s) = <<>> THEN NaN ELSE NumberOfText(s)

ApplyAffinity(aff, v) ==
    LET Converted(n) == IF n # NaN THEN n ELSE v IN
    IF aff \in {"INTEGER", "REAL", "NUMERIC"} THEN
        IF IsStr(v) THEN Converted(SqlNumberOfText(v.s)) ELSE v
    ELSE IF aff = "TEXT" THEN
        IF IsNum(v) THEN Str(IntToText(v.n)) ELSE v
    ELSE v

(* WHERE column = ? : the column's affinity is applied to the parameter,   *)
(* NULL equals nothing. *)
SqlEq(aff, stored, param) ==
    LET Equal(p) == stored # Null /\ p # Null /\ stored = p IN
    Equal(ApplyAffinity(aff, param))

(* better-sqlite3 binds numbers, strings and null only *)
Bindable(v) == v.t \in {"null", "num", "str"}

(* Order of characters in a BINARY-collated comparison (ASCII) *)
AsciiOrder == <<"\t", "\n", "\r", " ", "+", "-">> \o Digits \o <<";">> \o UpperLetters
                \o <<"_">> \o LowerLetters
CharCode(c) == IndexIn(AsciiOrder, c)

RECURSIVE TextLess(_, _)
TextLess(a, b) ==
    IF b = <<>> THEN FALSE
    ELSE IF a = <<>> THEN TRUE
    ELSE IF Head(a) = Head(b) THEN TextLess(Tail(a), Tail(b))
    ELSE CharCode(Head(a)) < CharCode(Head(b))

(* ORDER BY: NULL first, then numbers, then texts *)
ClassRank(v) == IF v = Null THEN 0 ELSE IF IsNum(v) THEN 1 ELSE 2
SqlLess(a, b) ==
    IF ClassRank(a) # ClassRank(b) THEN ClassRank(a) < ClassRank(b)
    ELSE IF IsNum(a) THEN a.n < b.n
    ELSE IF IsStr(a) THEN TextLess(a.s, b.s)
    ELSE FALSE

(* The value a statement sees for its identifier column *)
IdentityValue(row, rid, identifierColumn) ==
    IF identifierColumn = "rowid" THEN Num(rid) ELSE row[identifierColumn]
IdentityAffinity(cols, identifierColumn) ==
    IF identifierColumn = "rowid" THEN "INTEGER"
    ELSE Affinity(ColByName(cols, identifierColumn).type)

KeyColumns(cols) == {cols[i].name : i \in {j \in 1..Len(cols) : cols[j].pk > 0}}

WhereMatchesAnyRow(cols, row, rid, identifierColumn, identifier) == TRUE

(* WHERE "identifierColumn" = ? *)
WhereMatches(cols, row, rid, identifierColumn, identifier) ==
    SqlEq(IdentityAffinity(cols, identifierColumn),
          IdentityValue(row, rid, identifierColumn), identifier)

ChangedRowsThatDiffer(matched, rows, new) == {rid \in matched : new[rid] # rows[rid]}

(* result.changes: the rows the statement updated, whether or not a value  *)
(* in them is new *)
ChangedRows(matched, rows, new) == matched

(* UPDATE "table" SET c1 = ?, ... WHERE identifierColumn = ?  run with      *)
(* (values, identifier): the rows after it and the rowids it changed, or    *)
(* threw when a parameter cannot be bound or a constraint is violated.      *)
SqlUpdate(cols, rows, values, identifierColumn, identifier) ==
    LET stored(c) == ApplyAffinity(Affinity(ColByName(cols, c).type), values[c])
        Written(matched) ==
            [rid \in DOMAIN rows |->
                IF rid \in matched
                THEN [c \in DOMAIN rows[rid] |->
                        IF c \in DOMAIN values THEN stored(c) ELSE rows[rid][c]]
                ELSE rows[rid]]
        notNullViolated(matched, new) ==
            \E rid \in matched, c \in DOMAIN values :
                ColByName(cols, c).notnull # 0 /\ new[rid][c] = Null
        keyViolated(matched, new, keys) ==
            /\ keys # {}
            /\ \E r1 \in matched, r2 \in DOMAIN rows :
                 /\ r1 # r2
                 /\ \A c \in keys : new[r1][c] = new[r2][c] /\ new[r1][c] # Null
        Run(matched, new) ==
            IF DOMAIN values = {}    \* "SET WHERE": the statement does not compile
            THEN [threw |-> TRUE, rows |-> rows, changed |-> {}]
            ELSE IF ~Bindable(identifier) \/ \E c \in DOMAIN values : ~Bindable(values[c])
            THEN [threw |-> TRUE, rows |-> rows, changed |-> {}]
            ELSE IF notNullViolated(matched, new) \/ keyViolated(matched, new, KeyColumns(cols))
            THEN [threw |-> TRUE, rows |-> rows, changed |-> {}]
            ELSE [threw |-> FALSE, rows |-> new, changed |-> ChangedRows(matched, rows, new)]
        Where(matched) == Run(matched, Written(matched))
    IN  Where({rid \in DOMAIN rows :
                  WhereMatches(cols, rows[rid], rid, identifierColumn, identifier)})

-----------------------------------------------------------------------------
(* lib/db.ts *)

Stmt(op, changed) == [op |-> op, rows |-> changed]

(* The server process as getDatabase sees it: NODE_ENV, the global        *)
(* __inciscraperDb and the module's cachedDb (each empty or a connection), *)
(* and for the record the calls made, the calls that created a connection  *)
(* (a connection is named by the call that created it) and the connections *)
(* returned.  The database file can be opened. *)
NewProcess(production) ==
    [production |-> production, globalDb |-> <<>>, cachedDb |-> <<>>,
     calls |-> 0, created |-> {}, returned |-> {}]

SetsGlobalNever(p) == FALSE

(* process.env.NODE_ENV !== "production" *)
SetsGlobal(p) == ~p.production

getDatabase(p) ==
    LET Return(connection) ==
            [p EXCEPT !.calls = @ + 1, !.returned = @ \cup {connection}]
        Keep(connection, isNew) ==
            [p EXCEPT !.calls = @ + 1,
                      !.returned = @ \cup {connection},
                      !.created = IF isNew THEN @ \cup {connection} ELSE @,
                      !.globalDb = IF SetsGlobal(p) THEN <<connection>> ELSE @,
                      !.cachedDb = <<connection>>]
    IN  IF p.globalDb # <<>> THEN Return(p.globalDb[1])
        ELSE IF p.cachedDb # <<>> THEN Keep(p.cachedDb[1], FALSE)
        ELSE Keep(p.calls + 1, TRUE)

(* First declared column with pk > 0; <<>> stands for null *)
PrimaryOf(info) ==
    IF \E i \in 1..Len(info) : info[i].pk > 0
    THEN <<info[CHOOSE i \in 1..Len(info) :
                  info[i].pk > 0 /\ \A j \in 1..(i - 1) : ~(info[j].pk > 0)].name>>
    ELSE <<>>

getTableMetadata(d, table) ==
    IF table \notin DOMAIN d THEN [found |-> FALSE]
    ELSE LET info == d[table].cols
             primary == PrimaryOf(info)
         IN  [found |-> TRUE,
              columns |-> info,
              primaryKey |-> primary,
              usesRowId |-> (primary = <<>>),
              rowCount |-> Cardinality(DOMAIN d[table].rows)]

(* The statements getTableMetadata issues *)
MetadataTrace(d, table) ==
    IF table \notin DOMAIN d THEN <<Stmt("table_info", {})>>
    ELSE <<Stmt("table_info", {}), Stmt("count", {})>>

-----------------------------------------------------------------------------
(* Requests and responses *)

NoReq == [method |-> "none"]
NoResp == [status |-> 0]
ErrorResponse(code) == [status |-> code]

Min(a, b) == IF a < b THEN a ELSE b
Max(a, b) == IF a > b THEN a ELSE b

(* Number(searchParams.get(name)) || dflt : an absent parameter is null,   *)
(* Number(null) is 0, and 0 and NaN are falsy *)
NumberOrDefault(param, dflt) ==
    LET Or(n) == IF n = NaN THEN dflt ELSE IF n.n = 0 THEN dflt ELSE n.n IN
    Or(IF param = <<>> THEN Num(0) ELSE NumberOfText(param[1]))

MaxPageLimit == 500
DefaultPageLimit == 50

PageLimit(param) == Max(1, Min(MaxPageLimit, NumberOrDefault(param, DefaultPageLimit)))
PageOffset(param) == Max(0, NumberOrDefault(param, 0))

Perms(S) == {f \in [1..Cardinality(S) -> S] : \A i, j \in DOMAIN f : i # j => f[i] # f[j]}

(* ORDER BY "<primaryKey>" or rowid: every order of the rows in which the  *)
(* ordering column never decreases; rows with equal values come in any     *)
(* order the engine chooses. *)
OrderColumn(metadata) ==
    IF metadata.primaryKey # <<>> THEN metadata.primaryKey[1] ELSE "rowid"

SortedOrders(tbl, orderColumn) ==
    {ord \in Perms(DOMAIN tbl.rows) :
        \A i, j \in DOMAIN ord :
            i < j => ~SqlLess(IdentityValue(tbl.rows[ord[j]], ord[j], orderColumn),
                              IdentityValue(tbl.rows[ord[i]], ord[i], orderColumn))}

Window(ord, lim, off) == SubSeq(ord, off + 1, Min(Len(ord), off + lim))

(* SELECT rowid as __rowid__, * : a declared column of the same name       *)
(* overwrites the prefixed field in the row object *)
RowObject(tbl, rid, usesRowId) ==
    [f \in ColNames(tbl.cols) \cup (IF usesRowId THEN {ROWID_FIELD} ELSE {}) |->
        IF f \in ColNames(tbl.cols) THEN tbl.rows[rid][f] ELSE Num(rid)]

Coalesce(opt, dflt) == IF opt = <<>> THEN dflt ELSE opt[1]

GET(tableParam, limitParam, offsetParam) ==
    LET Rows(table, metadata, rids, lim, off) ==
            /\ resp' = [status |-> 200,
                        meta |-> [columns |-> metadata.columns,
                                  primaryKey |-> Coalesce(metadata.primaryKey, ROWID_FIELD),
                                  usesRowId |-> metadata.usesRowId,
                                  rowCount |-> metadata.rowCount,
                                  limit |-> lim,
                                  offset |-> off],
                        rows |-> [i \in 1..Len(rids) |->
                                    RowObject(db[table], rids[i], metadata.usesRowId)],
                        rids |-> rids]
            /\ trace' = MetadataTrace(db, table) \o <<Stmt("select", {})>>
            /\ proc' = getDatabase(getDatabase(proc))
        Query(table, metadata, lim, off) ==
            IF ~metadata.found
            THEN /\ resp' = ErrorResponse(404)
                 /\ trace' = MetadataTrace(db, table)
                 /\ proc' = getDatabase(proc)
            ELSE \E ord \in SortedOrders(db[table], OrderColumn(metadata)) :
                    Rows(table, metadata, Window(ord, lim, off), lim, off)
        Handle(table) ==
            IF ~table.ok
            THEN /\ resp' = ErrorResponse(400)
                 /\ trace' = <<>>
                 /\ UNCHANGED proc
            ELSE Query(table.name, getTableMetadata(db, table.name),
                       PageLimit(limitParam), PageOffset(offsetParam))
    IN  /\ req' = [method |-> "GET", table |-> tableParam,
                   limit |-> limitParam, offset |-> offsetParam]
        /\ prevReq' = req
        /\ prevResp' = resp
        /\ nreq' = nreq + 1
        /\ UNCHANGED gridVars
        /\ UNCHANGED db
        /\ Handle(sanitizeTableName(tableParam))

(* updateSchema.safeParse *)
SchemaAccepts(body) ==
    /\ body.kind = "object"
    /\ \/ body.updates = <<>>
       \/ /\ body.updates[1].t = "list"
          /\ \A i \in 1..Len(body.updates[1].items) :
                LET item == body.updates[1].items[i] IN
                item.key.t \in {"str", "num"} /\ item.data.t = "obj"

ParsedUpdates(body) == IF body.updates = <<>> THEN <<>> ELSE body.updates[1].items

(* The empty list is not answered early *)
NeverEmptyBatch(updates) == FALSE

(* if (!payload.data.updates.length) *)
IsEmptyBatch(updates) == Len(updates) = 0

(* The filter without the test on the key column *)
SurvivingEntriesWithKey(update, primaryKey, cols) ==
    {name \in DOMAIN update.data.m : name \in ColNames(cols)}

(* Object.entries(update.data).filter(...): the names that are written *)
SurvivingEntries(update, primaryKey, cols) ==
    {name \in DOMAIN update.data.m : name # primaryKey /\ name \in ColNames(cols)}

(* No edit is skipped *)
SkipsNoEdit(entries) == FALSE

(* if (entries.length === 0) continue *)
SkipsEdit(entries) == entries = {}

NormalizedValues(update, entries, cols) ==
    [name \in entries |-> normalizeValue(update.data.m[name], ColByName(cols, name).type)]

IdentifierColumn(primaryKey) == IF primaryKey = ROWID_FIELD THEN "rowid" ELSE primaryKey

NormalizedIdentifier(update, primaryKey, cols) ==
    normalizeValue(update.key,
                   IF primaryKey = ROWID_FIELD THEN TYPE_INTEGER
                   ELSE ColByName(cols, primaryKey).type)

(* A statement that changed no row is taken for a failure *)
StatementThrowsOnNoMatch(result) == result.threw \/ result.changed = {}

(* Whether the statement's run() leaves the loop by an exception *)
StatementThrows(result) == result.threw

(* Statements are counted, not rows *)
AddOne(total, result) == total + 1

(* total += result.changes ?? 0 *)
AddChanges(total, result) == total + Cardinality(result.changed)

(* The body of db.transaction(...) from update i on: the rows, the running *)
(* total and the statements run, or threw *)
RECURSIVE RunUpdates(_, _, _, _, _, _, _)
RunUpdates(cols, primaryKey, updates, i, rows, total, stmts) ==
    LET After(result) ==
            IF StatementThrows(result)
            THEN [threw |-> TRUE, rows |-> result.rows, total |-> total,
                  stmts |-> Append(stmts, IF result.threw THEN Stmt("update_failed", {})
                                          ELSE Stmt("update", result.changed))]
            ELSE RunUpdates(cols, primaryKey, updates, i + 1, result.rows,
                            AddChanges(total, result),
                            Append(stmts, Stmt("update", result.changed)))
        Apply(update, entries) ==
            IF SkipsEdit(entries)
            THEN RunUpdates(cols, primaryKey, updates, i + 1, rows, total, stmts)
            ELSE After(SqlUpdate(cols, rows, NormalizedValues(update, entries, cols),
                                 IdentifierColumn(primaryKey),
                                 NormalizedIdentifier(update, primaryKey, cols)))
    IN  IF i > Len(updates)
        THEN [threw |-> FALSE, rows |-> rows, total |-> total, stmts |-> stmts]
        ELSE Apply(updates[i], SurvivingEntries(updates[i], primaryKey, cols))

(* The loop run outside a transaction: what it wrote stays *)
TransactionRowsNoRollback(before, run) == run.rows

(* db.transaction: the rows are those the function left when it returns,   *)
(* and those before it began when it throws *)
TransactionRows(before, run) == IF run.threw THEN before ELSE run.rows

POST(tableParam, body) ==
    LET Transaction(table, run) ==
            /\ db' = [db EXCEPT ![table].rows = TransactionRows(db[table].rows, run)]
            /\ proc' = getDatabase(getDatabase(proc))
            /\ IF run.threw
               THEN /\ resp' = ErrorResponse(500)
                    /\ trace' = MetadataTrace(db, table) \o run.stmts
                                  \o <<Stmt("rollback", {})>>
               ELSE /\ resp' = [status |-> 200, updated |-> run.total]
                    /\ trace' = MetadataTrace(db, table) \o run.stmts
                                  \o <<Stmt("commit", {})>>
        Update(table, metadata) ==
            IF ~metadata.found
            THEN /\ resp' = ErrorResponse(404)
                 /\ trace' = MetadataTrace(db, table)
                 /\ proc' = getDatabase(proc)
                 /\ UNCHANGED db
            ELSE IF body.kind = "notjson"
            THEN /\ resp' = ErrorResponse(500)
                 /\ trace' = MetadataTrace(db, table)
                 /\ proc' = getDatabase(proc)
                 /\ UNCHANGED db
            ELSE IF ~SchemaAccepts(body)
            THEN /\ resp' = ErrorResponse(400)
                 /\ trace' = MetadataTrace(db, table)
                 /\ proc' = getDatabase(proc)
                 /\ UNCHANGED db
            ELSE IF IsEmptyBatch(ParsedUpdates(body))
            THEN /\ resp' = [status |-> 200, updated |-> 0]
                 /\ trace' = MetadataTrace(db, table)
                 /\ proc' = getDatabase(proc)
                 /\ UNCHANGED db
            ELSE Transaction(table,
                             RunUpdates(metadata.columns,
                                        Coalesce(metadata.primaryKey, ROWID_FIELD),
                                        ParsedUpdates(body), 1, db[table].rows, 0,
                                        <<Stmt("begin", {})>>))
        Handle(table) ==
            IF ~table.ok
            THEN /\ resp' = ErrorResponse(400)
                 /\ trace' = <<>>
                 /\ UNCHANGED proc
                 /\ UNCHANGED db
            ELSE Update(table.name, getTableMetadata(db, table.name))
    IN  /\ req' = [method |-> "POST", table |-> tableParam, body |-> body]
        /\ prevReq' = req
        /\ prevResp' = resp
        /\ nreq' = nreq + 1
        /\ UNCHANGED gridVars
        /\ Handle(sanitizeTableName(tableParam))

-----------------------------------------------------------------------------
(* Databases the service starts on *)

TBL == <<"t", "_", "1">>
LOGTBL == <<"l", "o", "g">>

ShapeSingle == <<ColumnInfo(0, "id", TYPE_INTEGER, 1, 1),
                 ColumnInfo(1, "name", TYPE_TEXT, 0, 0),
                 ColumnInfo(2, "qty", TYPE_INTEGER, 1, 0)>>
ShapeRowid == <<ColumnInfo(0, "id", TYPE_INTEGER, 0, 0),
                ColumnInfo(1, "name", TYPE_TEXT, 0, 0),
                ColumnInfo(2, "qty", TYPE_INTEGER, 1, 0)>>
ShapeComposite == <<ColumnInfo(0, "id", TYPE_INTEGER, 1, 1),
                    ColumnInfo(1, "name", TYPE_TEXT, 1, 2),
                    ColumnInfo(2, "qty", TYPE_NONE, 0, 0)>>
ShapeCompositeRev == <<ColumnInfo(0, "id", TYPE_INTEGER, 1, 2),
                       ColumnInfo(1, "name", TYPE_TEXT, 1, 1),
                       ColumnInfo(2, "qty", TYPE_INTEGER, 1, 0)>>
ShapeTextKey == <<ColumnInfo(0, "id", TYPE_TEXT, 1, 1),
                  ColumnInfo(1, "name", TYPE_NONE, 0, 0),
                  ColumnInfo(2, "qty", TYPE_BOOLEAN, 1, 0)>>

(* A table whose key column bears the name the route reserves *)
ShapeReservedName == <<ColumnInfo(0, ROWID_FIELD, TYPE_TEXT, 1, 1),
                       ColumnInfo(1, "name", TYPE_TEXT, 0, 0),
                       ColumnInfo(2, "qty", TYPE_INTEGER, 1, 0)>>

Row(id, name, qty) == [id |-> id, name |-> name, qty |-> qty]

InitTables ==
    { [cols |-> ShapeSingle,
       rows |-> <<Row(Num(1), Str(<<"a">>), Num(5)), Row(Num(2), Str(<<"b">>), Num(6)),
                  Row(Num(3), Null, Num(7))>>],
      [cols |-> ShapeSingle, rows |-> <<>>],
      [cols |-> ShapeRowid,
       rows |-> <<Row(Num(20), Str(<<"a">>), Num(5)), Row(Num(10), Null, Num(6)),
                  Row(Num(10), Str(<<"a">>), Num(7))>>],
      [cols |-> ShapeComposite,
       rows |-> <<Row(Num(1), Str(<<"b">>), Num(5)), Row(Num(1), Str(<<"a">>), Null),
                  Row(Num(2), Str(<<"a">>), Str(<<"x">>))>>],
      [cols |-> ShapeCompositeRev,
       rows |-> <<Row(Num(2), Str(<<"a">>), Num(5)), Row(Num(1), Str(<<"b">>), Num(6)),
                  Row(Num(1), Str(<<"a">>), Num(7))>>],
      [cols |-> ShapeTextKey,
       rows |-> <<Row(Str(<<"2">>), Str(<<"a">>), Num(1)), Row(Str(<<"1">>), Num(4), Num(0)),
                  Row(Str(<<"x">>), Null, Num(1))>>],
      [cols |-> ShapeReservedName,
       rows |-> << [__rowid__ |-> Str(<<"b">>), name |-> Str(<<"a">>), qty |-> Num(5)],
                   [__rowid__ |-> Str(<<"a">>), name |-> Null, qty |-> Num(6)],
                   [__rowid__ |-> Str(<<"c">>), name |-> Str(<<"b">>), qty |-> Num(7)] >>] }

OtherTable == [cols |-> <<ColumnInfo(0, "msg", TYPE_TEXT, 0, 0)>>,
               rows |-> << [msg |-> Str(<<"k">>)] >>]

InitDBs == {[n \in {TBL, LOGTBL} |-> IF n = TBL THEN t ELSE OtherTable] : t \in InitTables}

(* Inputs *)

TableParams == {TBL, LOGTBL, <<"z">>, <<>>, <<"t", ";">>, <<"t", " ", "1">>, <<"t", "_", "1", "\n">>}

Obj(m) == [t |-> "obj", m |-> m]
Edit(key, data) == [key |-> key, data |-> data]

Edits ==
    { Edit(Num(1), Obj([name |-> Str(<<"x">>)])),
      Edit(Str(<<" ", "2", " ">>), Obj([qty |-> Str(<<" ", "4", "2", " ">>), id |-> Num(9), zz |-> Num(1)])),
      Edit(Num(9), Obj([name |-> Str(<<"y">>)])),
      Edit(Num(1), Obj([__rowid__ |-> Num(9), zz |-> Null])),
      Edit(Num(2), Obj([id |-> Num(9)])),
      Edit(Num(2), Obj([qty |-> Str(<<"n", "u", "l", "l">>), name |-> Str(<<"z">>)])),
      Edit(Num(1), Obj([qty |-> Num(8)])),
      Edit(Num(2), Obj([name |-> Bool(TRUE)])) }

SeqsUpTo(S, n) == UNION {[1..k -> S] : k \in 0..n}

Batches == SeqsUpTo(Edits, MaxBatch)

ListBody(items) == [kind |-> "object", updates |-> << [t |-> "list", items |-> items] >>]

Bodies ==
    {ListBody(b) : b \in Batches}
    \cup {[kind |-> "object", updates |-> <<>>],
          [kind |-> "notjson"],
          [kind |-> "object", updates |-> <<Num(1)>>],
          ListBody(<<Edit(Null, Obj([name |-> Null]))>>),
          ListBody(<<Edit(Num(1), Num(1))>>)}

LimitParams == {<<>>, << <<"0">> >>, << <<"-", "1">> >>, << <<"1">> >>, << <<"2">> >>,
                << <<"5", "0", "1">> >>, << <<"a">> >>}
OffsetParams == {<<>>, << <<"-", "1">> >>, << <<"1">> >>, << <<"2">> >>, << <<"4">> >>}

PostInputs == ({TBL} \X Bodies)
              \cup ((TableParams \ {TBL}) \X {ListBody(b) : b \in SeqsUpTo(Edits, 1)})
GetInputs == ({TBL} \X LimitParams \X OffsetParams)
             \cup ((TableParams \ {TBL}) \X {<<>>, << <<"2">> >>} \X {<<>>})
ReadInputs == ({TBL} \X {<<>>, << <<"1">> >>, << <<"2">> >>}
                     \X {<<>>, << <<"1">> >>, << <<"2">> >>, << <<"4">> >>})
              \cup ({<<"t", ";">>} \X {<<>>} \X {<<>>})

-----------------------------------------------------------------------------
(* The service answering one request, GET or POST, on any of the databases *)

(* HomePage before it is mounted: the initial values of its state hooks *)
DEFAULT_LIMIT == 50

Unmounted ==
    /\ tables = <<>>
    /\ selectedTable = <<>>
    /\ tableData = <<>>
    /\ isLoading = FALSE
    /\ status = [type |-> "idle"]
    /\ editedRows = <<>>
    /\ limit = DEFAULT_LIMIT
    /\ offset = 0
    /\ reloadKey = 0
    /\ fetches = {}
    /\ nfetch = 0
    /\ nedits = 0

Init ==
    /\ db \in InitDBs
    /\ req = NoReq
    /\ resp = NoResp
    /\ prevReq = NoReq
    /\ prevResp = NoResp
    /\ trace = <<>>
    /\ nreq = 0
    /\ proc = NewProcess(TRUE)
    /\ Unmounted

Idle == req = NoReq

Get == \E in \in GetInputs : GET(in[1], in[2], in[3])
Post == \E in \in PostInputs : POST(in[1], in[2])

Next ==
    \/ Idle /\ Get
    \/ Idle /\ Post

Spec == Init /\ [][Next]_vars

(* The reader alone: up to MaxReads page reads of a table nobody modifies *)
Read == \E in \in ReadInputs : GET(in[1], in[2], in[3])

NextRead == nreq < MaxReads /\ Read

SpecRead == Init /\ [][NextRead]_vars

(* A batch update followed by a read of the first page of the same table *)
RoundTripEdits ==
    { Edit(Num(1), Obj([name |-> Str(<<"x">>)])),
      Edit(Num(2), Obj([qty |-> Str(<<" ", "4", "2", " ">>)])),
      Edit(Num(3), Obj([name |-> Num(5)])),
      Edit(Num(3), Obj([name |-> Str(<<"y">>)])),
      Edit(Num(1), Obj([qty |-> Num(8), name |-> Null])) }

RoundTripBodies == {ListBody(b) : b \in SeqsUpTo(RoundTripEdits, MaxBatch)}

Write == \E body \in RoundTripBodies : POST(TBL, body)
ReadBack == GET(TBL, <<>>, <<>>)

NextRoundTrip ==
    \/ Idle /\ Write
    \/ req.method = "POST" /\ ReadBack

SpecRoundTrip == Init /\ [][NextRoundTrip]_vars

(* A batch update, and then the same request once more *)
PostAgain == POST(req.table, req.body)

NextTwice ==
    \/ Idle /\ Post
    \/ nreq = 1 /\ req.method = "POST" /\ PostAgain

SpecTwice == Init /\ [][NextTwice]_vars

(* normalizeValue alone: one call on a value and a declared column type *)
NormalizeTexts ==
    { <<>>, <<" ">>, <<"\t", " ">>,
      <<"N","U","L","L">>, <<" ","n","u","l","l"," ">>, <<"N","u","l","l">>,
      <<"4","2">>, <<" ","4","2"," ">>, <<"-","7">>, <<"+","5">>, <<"0">>, <<"1">>,
      <<"a","b","c">>, <<" ","a","b","c"," ">>, <<"4","x">>,
      <<"t","r","u","e">>, <<" ","Y","E","S"," ">>, <<"O","n">>,
      <<"n","o">>, <<"O","F","F">>, <<"F","a","l","s","e","\n">>,
      <<"m","a","y","b","e">> }

NormalizeValues ==
    {Str(t) : t \in NormalizeTexts} \cup {Num(0), Num(5), Null, Bool(TRUE), Bool(FALSE)}

NormalizeTypes ==
    { TYPE_INTEGER, TYPE_TEXT, TYPE_BOOLEAN, TYPE_REAL, TYPE_DATE, TYPE_NONE,
      <<"b","i","g","i","n","t">>, <<"V","A","R","C","H","A","R">>, <<"C","l","o","b">>,
      <<"D","O","U","B","L","E">>, <<"F","l","o","a","t">>, <<"b","o","o","l">>,
      <<"N","U","M","E","R","I","C">>, <<"B","O","O","L","I","N","T">> }

NormalizeCalls ==
    {[method |-> "normalizeValue", value |-> v, columnType |-> t] :
        v \in NormalizeValues, t \in NormalizeTypes}

InitNormalize ==
    /\ db = <<>>
    /\ req \in NormalizeCalls
    /\ resp = NoResp
    /\ trace = <<>>
    /\ prevReq = NoReq
    /\ prevResp = NoResp
    /\ nreq = 0
    /\ proc = NewProcess(TRUE)
    /\ Unmounted

Normalize ==
    /\ resp = NoResp
    /\ resp' = [returned |-> normalizeValue(req.value, req.columnType)]
    /\ UNCHANGED <<db, req, trace, prevReq, prevResp, nreq, proc>>
    /\ UNCHANGED gridVars

SpecNormalize == InitNormalize /\ [][Normalize]_vars

-----------------------------------------------------------------------------
(* The page (app/page.tsx, HomePage) against a service that answers each   *)
(* request or fails it.  A handler and the effect its state change         *)
(* triggers are one step; a response arrives in a step of its own.         *)

GridTable ==
    [cols |-> ShapeSingle,
     rows |-> <<Row(Num(1), Str(<<"a">>), Num(5)), Row(Num(2), Str(<<"b">>), Num(6))>>]

(* The tables the page is opened on: a single key, a key of two columns   *)
(* whose first column repeats, and no key at all *)
GridTables ==
    {GridTable,
     [cols |-> ShapeComposite,
      rows |-> <<Row(Num(1), Str(<<"a">>), Num(5)), Row(Num(1), Str(<<"b">>), Num(6))>>],
     [cols |-> ShapeRowid,
      rows |-> <<Row(Num(10), Str(<<"a">>), Num(5)), Row(Num(20), Str(<<"b">>), Num(6))>>]}

GridDb(t) == [n \in {TBL, LOGTBL} |-> IF n = TBL THEN t ELSE OtherTable]

GridDbs == {GridDb(t) : t \in GridTables}

(* SELECT name FROM sqlite_master ... ORDER BY name *)
listTables(d) ==
    CHOOSE names \in Perms(DOMAIN d) :
        \A i, j \in DOMAIN names : i < j => TextLess(names[i], names[j])

(* The bodies GET may answer a page request with *)
TableResponses(d, table, limitParam, offsetParam) ==
    LET Body(metadata, rids, lim, off) ==
            [meta |-> [columns |-> metadata.columns,
                       primaryKey |-> Coalesce(metadata.primaryKey, ROWID_FIELD),
                       usesRowId |-> metadata.usesRowId,
                       rowCount |-> metadata.rowCount,
                       limit |-> lim,
                       offset |-> off],
             rows |-> [i \in 1..Len(rids) |->
                         RowObject(d[table], rids[i], metadata.usesRowId)]]
        Pages(metadata, lim, off) ==
            {Body(metadata, Window(ord, lim, off), lim, off) :
                ord \in SortedOrders(d[table], OrderColumn(metadata))}
    IN  Pages(getTableMetadata(d, table), PageLimit(limitParam), PageOffset(offsetParam))

LoadRequest(table, lim, off, seq) ==
    [kind |-> "load", table |-> table, limit |-> lim, offset |-> off, seq |-> seq]

(* The load effect from setIsLoading(true) to the fetch, on the requests   *)
(* that stay in flight *)
StartLoad(pending, table, lim, off) ==
    /\ isLoading' = TRUE
    /\ status' = [type |-> "loading", message |-> "loading"]
    /\ fetches' = pending \cup {LoadRequest(table, lim, off, nfetch + 1)}
    /\ nfetch' = nfetch + 1

(* The first render: the schema is requested; no table is selected yet *)
Mount ==
    /\ nfetch = 0
    /\ fetches' = {[kind |-> "schema", seq |-> 1]}
    /\ nfetch' = 1
    /\ UNCHANGED <<tables, selectedTable, tableData, isLoading, status, editedRows,
                   limit, offset, reloadKey, nedits>>
    /\ UNCHANGED serverVars

SchemaArrives ==
    \E f \in fetches :
        /\ f.kind = "schema"
        /\ nfetch < MaxFetches
        /\ tables' = listTables(db)
        /\ selectedTable' = IF selectedTable # <<>> THEN selectedTable ELSE listTables(db)[1]
        /\ IF selectedTable' # selectedTable
           THEN StartLoad(fetches \ {f}, selectedTable', limit, offset)
           ELSE /\ fetches' = fetches \ {f}
                /\ UNCHANGED <<isLoading, status, nfetch>>
        /\ UNCHANGED <<tableData, editedRows, limit, offset, reloadKey, nedits>>
        /\ UNCHANGED serverVars

SchemaFails ==
    \E f \in fetches :
        /\ f.kind = "schema"
        /\ status' = [type |-> "error", message |-> "schema failed"]
        /\ fetches' = fetches \ {f}
        /\ UNCHANGED <<tables, selectedTable, tableData, isLoading, editedRows,
                       limit, offset, reloadKey, nfetch, nedits>>
        /\ UNCHANGED serverVars

(* The table buttons and the select box *)
SelectTable(table) ==
    /\ nfetch < MaxFetches
    /\ table # selectedTable \/ offset # 0
    /\ selectedTable' = table
    /\ offset' = 0
    /\ StartLoad(fetches, table, limit, 0)
    /\ UNCHANGED <<tables, tableData, editedRows, limit, reloadKey, nedits>>
    /\ UNCHANGED serverVars

handleLimitChange(value) ==
    LET Set(next) ==
            /\ next # limit \/ offset # 0
            /\ limit' = next
            /\ offset' = 0
            /\ IF selectedTable = <<>>
               THEN UNCHANGED <<isLoading, status, fetches, nfetch>>
               ELSE StartLoad(fetches, selectedTable, next, 0)
    IN  /\ nfetch < MaxFetches
        /\ Set(Max(1, Min(MaxPageLimit, NumberOrDefault(<<value>>, DEFAULT_LIMIT))))
        /\ UNCHANGED <<tables, selectedTable, tableData, editedRows, reloadKey, nedits>>
        /\ UNCHANGED serverVars

totalPages(meta) == Max(1, (meta.rowCount + meta.limit - 1) \div meta.limit)
currentPage(meta) == (meta.offset \div meta.limit) + 1

(* The buttons "previous" and "next" *)
goToPage(delta) ==
    LET Go(meta, next) ==
            /\ next # offset
            /\ offset' = next
            /\ StartLoad(fetches, selectedTable, limit, next)
        Page(meta, page) ==
            /\ IF delta < 0 THEN currentPage(meta) > 1
                            ELSE currentPage(meta) < totalPages(meta)
            /\ Go(meta, (Min(Max(page, 1), totalPages(meta)) - 1) * meta.limit)
    IN  /\ nfetch < MaxFetches
        /\ ~isLoading
        /\ tableData # <<>>
        /\ Page(tableData[1].meta, currentPage(tableData[1].meta) + delta)
        /\ UNCHANGED <<tables, selectedTable, tableData, editedRows, limit, reloadKey, nedits>>
        /\ UNCHANGED serverVars

(* The refresh button *)
Refresh ==
    /\ nfetch < MaxFetches
    /\ selectedTable # <<>>
    /\ reloadKey' = reloadKey + 1
    /\ StartLoad(fetches, selectedTable, limit, offset)
    /\ UNCHANGED <<tables, selectedTable, tableData, editedRows, limit, offset, nedits>>
    /\ UNCHANGED serverVars

GridTexts == {<<"x">>, <<"y">>}

SetEditedAlone(edited, identifier, updatedRow) == (identifier :> updatedRow)

(* newEdited = new Map(editedRows); newEdited.set(identifier, updatedRow) *)
SetEdited(edited, identifier, updatedRow) == (identifier :> updatedRow) @@ edited

handleCellChange(i, column, value) ==
    LET Change(keyField, row, identifier, updatedRow) ==
            /\ IsStr(identifier) \/ IsNum(identifier)
            /\ editedRows' = SetEdited(editedRows, identifier, updatedRow)
            /\ tableData' =
                 << [tableData[1] EXCEPT !.rows =
                        [j \in DOMAIN tableData[1].rows |->
                            IF /\ keyField \in DOMAIN tableData[1].rows[j]
                               /\ tableData[1].rows[j][keyField] = identifier
                            THEN updatedRow
                            ELSE tableData[1].rows[j]]] >>
        EditRow(keyField, row) ==
            /\ keyField \in DOMAIN row
            /\ Change(keyField, row, row[keyField], [row EXCEPT ![column] = Str(value)])
    IN  /\ nedits < MaxEdits
        /\ tableData # <<>>
        /\ i \in DOMAIN tableData[1].rows
        /\ column \in ColNames(tableData[1].meta.columns)
        /\ column # tableData[1].meta.primaryKey     \* the key's input is disabled
        /\ EditRow(tableData[1].meta.primaryKey, tableData[1].rows[i])
        /\ nedits' = nedits + 1
        /\ UNCHANGED <<tables, selectedTable, isLoading, status, limit, offset,
                       reloadKey, fetches, nfetch>>
        /\ UNCHANGED serverVars

(* onChange of a cell's input: the text typed differs from the text shown *)
CellChange ==
    \E i \in 1..3, column \in {"id", "name", "qty", "msg"}, value \in GridTexts :
        /\ tableData # <<>>
        /\ i \in DOMAIN tableData[1].rows
        /\ column \in DOMAIN tableData[1].rows[i]
        /\ tableData[1].rows[i][column] # Str(value)
        /\ handleCellChange(i, column, value)

IsSentColumnAlways(name, primaryKey) == TRUE

(* if (column.name === primaryKey) return *)
IsSentColumn(name, primaryKey) == name # primaryKey

(* The updates handleSave builds from the edited rows *)
SaveUpdates(meta, edited) ==
    [key \in DOMAIN edited |->
        [c \in {n \in ColNames(meta.columns) :
                    IsSentColumn(n, meta.primaryKey) /\ n \in DOMAIN edited[key]}
            |-> edited[key][c]]]

(* handleSave up to the fetch; the button is disabled while a page loads *)
handleSave ==
    /\ nfetch < MaxFetches
    /\ ~isLoading
    /\ DOMAIN editedRows # {}
    /\ selectedTable # <<>>
    /\ tableData # <<>>
    /\ status' = [type |-> "loading", message |-> "saving"]
    /\ fetches' = fetches \cup {[kind |-> "save", table |-> selectedTable,
                                 updates |-> SaveUpdates(tableData[1].meta, editedRows),
                                 edited |-> editedRows,    \* kept for the record only
                                 seq |-> nfetch + 1]}
    /\ nfetch' = nfetch + 1
    /\ UNCHANGED <<tables, selectedTable, tableData, isLoading, editedRows,
                   limit, offset, reloadKey, nedits>>
    /\ UNCHANGED serverVars

EditsKeptAfterLoad(edited) == edited

(* setEditedRows(new Map()) after the page has arrived *)
EditsAfterLoad(edited) == <<>>

(* The page request is answered: .then, .then, .finally *)
LoadSucceeds ==
    \E f \in fetches :
        /\ f.kind = "load"
        /\ \E body \in TableResponses(db, f.table, <<IntToText(f.limit)>>,
                                      <<IntToText(f.offset)>>) :
              tableData' = << [meta |-> body.meta, rows |-> body.rows,
                               \* kept for the record only: the request answered
                               \* and the rows as they arrived
                               request |-> f, loaded |-> body.rows] >>
        /\ editedRows' = EditsAfterLoad(editedRows)
        /\ status' = [type |-> "idle"]
        /\ isLoading' = FALSE
        /\ fetches' = fetches \ {f}
        /\ UNCHANGED <<tables, selectedTable, limit, offset, reloadKey, nfetch, nedits>>
        /\ UNCHANGED serverVars

(* The page request fails or is answered with an error: .catch, .finally *)
LoadFails ==
    \E f \in fetches :
        /\ f.kind = "load"
        /\ status' = [type |-> "error", message |-> "load failed"]
        /\ tableData' = <<>>
        /\ isLoading' = FALSE
        /\ fetches' = fetches \ {f}
        /\ UNCHANGED <<tables, selectedTable, editedRows, limit, offset, reloadKey,
                       nfetch, nedits>>
        /\ UNCHANGED serverVars

EditsKeptAfterSave(edited) == edited

(* setEditedRows(new Map()) after an ok response *)
EditsAfterSave(edited) == <<>>

(* handleSave after an ok response; the new reloadKey runs the load effect *)
SaveSucceeds ==
    \E f \in fetches :
        /\ f.kind = "save"
        /\ nfetch < MaxFetches
        /\ editedRows' = EditsAfterSave(editedRows)
        /\ reloadKey' = reloadKey + 1
        /\ StartLoad(fetches \ {f}, selectedTable, limit, offset)
        /\ UNCHANGED <<tables, selectedTable, tableData, limit, offset, nedits>>
        /\ UNCHANGED serverVars

(* handleSave's catch: the response is not ok or the request failed *)
SaveFails ==
    \E f \in fetches :
        /\ f.kind = "save"
        /\ status' = [type |-> "error", message |-> "save failed"]
        /\ fetches' = fetches \ {f}
        /\ UNCHANGED <<tables, selectedTable, tableData, isLoading, editedRows,
                       limit, offset, reloadKey, nfetch, nedits>>
        /\ UNCHANGED serverVars

InitGrid ==
    /\ db \in GridDbs
    /\ req = NoReq
    /\ resp = NoResp
    /\ prevReq = NoReq
    /\ prevResp = NoResp
    /\ trace = <<>>
    /\ nreq = 0
    /\ proc = NewProcess(TRUE)
    /\ Unmounted

NextGrid ==
    \/ Mount
    \/ SchemaArrives
    \/ SchemaFails
    \/ \E table \in {TBL, LOGTBL} : table \in {tables[i] : i \in DOMAIN tables} /\ SelectTable(table)
    \/ \E value \in {<<"1">>, <<"0">>} : handleLimitChange(value)
    \/ \E delta \in {-1, 1} : goToPage(delta)
    \/ Refresh
    \/ CellChange
    \/ handleSave
    \/ LoadSucceeds
    \/ LoadFails
    \/ SaveSucceeds
    \/ SaveFails

SpecGrid == InitGrid /\ [][NextGrid]_vars

-----------------------------------------------------------------------------
(* One server process, in production or not, answering the schema route,   *)
(* page reads and batch updates one after the other; outside production    *)
(* the module lib/db may be evaluated anew, which resets its cachedDb.     *)

InitHandle ==
    /\ db = GridDb(GridTable)
    /\ req = NoReq
    /\ resp = NoResp
    /\ prevReq = NoReq
    /\ prevResp = NoResp
    /\ trace = <<>>
    /\ nreq = 0
    /\ proc \in {NewProcess(production) : production \in BOOLEAN}
    /\ Unmounted

(* GET /api/schema: listTables *)
SchemaRoute ==
    /\ req' = [method |-> "GET", route |-> "schema"]
    /\ resp' = [status |-> 200, tables |-> listTables(db)]
    /\ trace' = <<Stmt("tables", {})>>
    /\ proc' = getDatabase(proc)
    /\ prevReq' = req
    /\ prevResp' = resp
    /\ nreq' = nreq + 1
    /\ UNCHANGED db
    /\ UNCHANGED gridVars

ModuleReload ==
    /\ ~proc.production
    /\ proc.cachedDb # <<>>
    /\ proc' = [proc EXCEPT !.cachedDb = <<>>]
    /\ UNCHANGED <<db, req, resp, trace, prevReq, prevResp, nreq>>
    /\ UNCHANGED gridVars

HandleReads == {<<TBL, <<>>, <<>> >>, << <<"z">>, <<>>, <<>> >>, << <<"t", ";">>, <<>>, <<>> >>}

HandleWrites ==
    {<<TBL, ListBody(<<Edit(Num(1), Obj([name |-> Str(<<"x">>)]))>>)>>,
     <<TBL, ListBody(<<>>)>>,
     << <<"z">>, ListBody(<<>>)>>}

NextHandle ==
    \/ nreq < MaxRequests /\ SchemaRoute
    \/ nreq < MaxRequests /\ \E in \in HandleReads : GET(in[1], in[2], in[3])
    \/ nreq < MaxRequests /\ \E in \in HandleWrites : POST(in[1], in[2])
    \/ ModuleReload

SpecHandle == InitHandle /\ [][NextHandle]_vars

-----------------------------------------------------------------------------
(* What the claims speak of, stated on the request, the database before    *)
(* it (db) and after it (db'), without the handler's own loop.             *)

AllowedNameChars ==
    {UpperLetters[i] : i \in 1..26} \cup {LowerLetters[i] : i \in 1..26}
    \cup {Digits[i] : i \in 1..10} \cup {"_"}

UnsafeName(name) == name = <<>> \/ \E i \in 1..Len(name) : name[i] \notin AllowedNameChars

(* A POST to an existing table whose body the schema accepts *)
IsBatchRequest(r, d) ==
    /\ r.method = "POST"
    /\ ~UnsafeName(r.table)
    /\ r.table \in DOMAIN d
    /\ r.body.kind = "object"
    /\ SchemaAccepts(r.body)

Items(r) == ParsedUpdates(r.body)

(* The identity column of a table: its resolved key column, or the rowid *)
IdentityName(tbl) == Coalesce(PrimaryOf(tbl.cols), ROWID_FIELD)
IdentityCell(tbl, rid) ==
    IF PrimaryOf(tbl.cols) = <<>> THEN Num(rid) ELSE tbl.rows[rid][PrimaryOf(tbl.cols)[1]]

(* The columns an edit may write: declared, and not the identity column *)
EditColumns(tbl, e) == (DOMAIN e.data.m \cap ColNames(tbl.cols)) \ {IdentityName(tbl)}
Executes(tbl, e) == EditColumns(tbl, e) # {}

(* The rows whose identity equals the edit's normalized identifier *)
EditTargets(tbl, e) ==
    LET idc == IdentifierColumn(IdentityName(tbl)) IN
    {rid \in DOMAIN tbl.rows :
        SqlEq(IdentityAffinity(tbl.cols, idc), IdentityValue(tbl.rows[rid], rid, idc),
              NormalizedIdentifier(e, IdentityName(tbl), tbl.cols))}

(* The value an edit leaves in column c *)
EditValue(tbl, e, c) ==
    ApplyAffinity(Affinity(ColByName(tbl.cols, c).type),
                  normalizeValue(e.data.m[c], ColByName(tbl.cols, c).type))

Writers(tbl, items, rid, c) ==
    {j \in 1..Len(items) : c \in EditColumns(tbl, items[j]) /\ rid \in EditTargets(tbl, items[j])}

MaxOf(S) == CHOOSE x \in S : \A y \in S : y <= x

(* The rows a committed batch leaves: each cell holds the value of the     *)
(* last edit that writes it, and its old value when none does *)
ExpectedRows(tbl, items) ==
    [rid \in DOMAIN tbl.rows |->
        [c \in DOMAIN tbl.rows[rid] |->
            IF Writers(tbl, items, rid, c) = {} THEN tbl.rows[rid][c]
            ELSE EditValue(tbl, items[MaxOf(Writers(tbl, items, rid, c))], c)]]

RECURSIVE SumTargets(_, _, _)
SumTargets(tbl, items, j) ==
    IF j > Len(items) THEN 0
    ELSE (IF Executes(tbl, items[j]) THEN Cardinality(EditTargets(tbl, items[j])) ELSE 0)
         + SumTargets(tbl, items, j + 1)

(* Some statement of the batch raises a storage error: the executing edits *)
(* are run in order, each on the rows the earlier ones left *)
RECURSIVE BatchRaises(_, _, _, _)
BatchRaises(tbl, rows, items, j) ==
    IF j > Len(items) THEN FALSE
    ELSE IF ~Executes(tbl, items[j]) THEN BatchRaises(tbl, rows, items, j + 1)
    ELSE LET e == items[j]
             r == SqlUpdate(tbl.cols, rows,
                            [c \in EditColumns(tbl, e) |->
                                normalizeValue(e.data.m[c], ColByName(tbl.cols, c).type)],
                            IdentifierColumn(IdentityName(tbl)),
                            NormalizedIdentifier(e, IdentityName(tbl), tbl.cols))
         IN  r.threw \/ BatchRaises(tbl, r.rows, items, j + 1)

Raises(r, d) == BatchRaises(d[r.table], d[r.table].rows, Items(r), 1)

UpdateStatements(tr) == {i \in 1..Len(tr) : tr[i].op \in {"update", "update_failed"}}

-----------------------------------------------------------------------------
(* C1: a batch in which some update statement raises a storage error is    *)
(* answered with a server error and leaves every table as it was before    *)
(* the request, the rows of the edits already executed included.           *)
C1_AllOrNothing ==
    [][ (IsBatchRequest(req', db) /\ Raises(req', db))
          => (resp'.status = 500 /\ db' = db) ]_vars

(* A later edit failed after an earlier one had changed a row *)
C1_Witness ==
    /\ req.method = "POST"
    /\ resp.status = 500
    /\ \E i, j \in 1..Len(trace) :
          i < j /\ trace[i].op = "update" /\ trace[i].rows # {} /\ trace[j].op = "update_failed"

(* C2: GET and POST reject a table name that is empty or has a character   *)
(* outside [A-Za-z0-9_] with a client error, before any statement is       *)
(* issued against storage, and leave the database unchanged.               *)
C2_UnsafeNameRejected ==
    [][ (req'.method \in {"GET", "POST"} /\ UnsafeName(req'.table))
          => (resp'.status = 400 /\ trace' = <<>> /\ db' = db) ]_vars

(* A batch with an edit was posted to a name that carries a ";" *)
C2_Witness ==
    /\ req.method = "POST"
    /\ \E i \in 1..Len(req.table) : req.table[i] = ";"
    /\ req.body.kind = "object" /\ Len(Items(req)) > 0
    /\ resp.status = 400

(* C3: after a batch update every row still exists and the identity column *)
(* of every row holds the value it held before: an entry naming the        *)
(* identity column is never written, whatever else the edit carries.       *)
C3_IdentityNeverWritten ==
    [][ req'.method = "POST"
          => \A n \in DOMAIN db :
                /\ DOMAIN db'[n].rows = DOMAIN db[n].rows
                /\ \A rid \in DOMAIN db[n].rows :
                      IdentityCell(db'[n], rid) = IdentityCell(db[n], rid) ]_vars

(* A committed edit that named the identity column beside a column it wrote *)
C3_Witness ==
    /\ IsBatchRequest(req, db)
    /\ resp.status = 200
    /\ resp.updated > 0
    /\ PrimaryOf(db[req.table].cols) # <<>>
    /\ \E j \in 1..Len(Items(req)) :
          /\ IdentityName(db[req.table]) \in DOMAIN Items(req)[j].data.m
          /\ Executes(db[req.table], Items(req)[j])
          /\ EditTargets(db[req.table], Items(req)[j]) # {}

(* C4: when an executed edit matches no row and no statement raises a      *)
(* storage error, the batch succeeds, every other edit is committed and    *)
(* the edit that matched nothing adds 0 to the count.                      *)
C4_ZeroMatchIsNoError ==
    [][ (/\ IsBatchRequest(req', db)
         /\ \E j \in 1..Len(Items(req')) :
               /\ Executes(db[req'.table], Items(req')[j])
               /\ EditTargets(db[req'.table], Items(req')[j]) = {}
         /\ ~Raises(req', db))
          => (/\ resp'.status = 200
              /\ resp'.updated = SumTargets(db[req'.table], Items(req'), 1)
              /\ db'[req'.table].rows = ExpectedRows(db[req'.table], Items(req'))) ]_vars

(* A batch succeeded in which one statement matched no row and another     *)
(* changed one *)
C4_Witness ==
    /\ req.method = "POST"
    /\ resp.status = 200
    /\ \E i, j \in 1..Len(trace) :
          /\ trace[i].op = "update" /\ trace[i].rows = {}
          /\ trace[j].op = "update" /\ trace[j].rows # {}

(* C5: on success the updated count is the sum, over the edits that ran a  *)
(* statement, of the rows that statement changed, and every row the batch  *)
(* changed is a row of one of those statements.                            *)
C5_CountExact ==
    [][ (IsBatchRequest(req', db) /\ resp'.status = 200)
          => (/\ resp'.updated = SumTargets(db[req'.table], Items(req'), 1)
              /\ \A rid \in DOMAIN db[req'.table].rows :
                    db'[req'.table].rows[rid] # db[req'.table].rows[rid]
                      => \E j \in 1..Len(Items(req')) :
                            /\ Executes(db[req'.table], Items(req')[j])
                            /\ rid \in EditTargets(db[req'.table], Items(req')[j])) ]_vars

(* A batch succeeded in which one statement changed two rows *)
C5_Witness ==
    /\ req.method = "POST"
    /\ resp.status = 200
    /\ resp.updated >= 2
    /\ \E i \in 1..Len(trace) : trace[i].op = "update" /\ Cardinality(trace[i].rows) = 2

(* C6: an edit with no entry left after the unknown and identity columns   *)
(* are removed runs no statement and adds 0 to the count even when its     *)
(* identifier matches a row; it does not fail the batch, whose other edits *)
(* are applied.                                                            *)
C6_EmptyEditSkipped ==
    [][ (/\ IsBatchRequest(req', db)
         /\ \E j \in 1..Len(Items(req')) : ~Executes(db[req'.table], Items(req')[j])
         /\ ~Raises(req', db))
          => (/\ resp'.status = 200
              /\ Cardinality(UpdateStatements(trace'))
                   = Cardinality({j \in 1..Len(Items(req')) :
                                     Executes(db[req'.table], Items(req')[j])})
              /\ resp'.updated = SumTargets(db[req'.table], Items(req'), 1)
              /\ db'[req'.table].rows = ExpectedRows(db[req'.table], Items(req'))) ]_vars

(* A batch succeeded that held an edit with nothing left to write, whose   *)
(* identifier matches a row, and an edit that changed a row *)
C6_Witness ==
    /\ IsBatchRequest(req, db)
    /\ resp.status = 200
    /\ resp.updated > 0
    /\ \E j \in 1..Len(Items(req)) :
          /\ DOMAIN Items(req)[j].data.m # {}
          /\ ~Executes(db[req.table], Items(req)[j])
          /\ EditTargets(db[req.table], Items(req)[j]) # {}

(* C7: a batch update of an existing table with an empty updates list      *)
(* succeeds with updated = 0, opens no transaction and changes no table.   *)
C7_EmptyBatch ==
    [][ (IsBatchRequest(req', db) /\ Len(Items(req')) = 0)
          => (/\ resp' = [status |-> 200, updated |-> 0]
              /\ \A i \in 1..Len(trace') : trace'[i].op \notin {"begin", "commit", "rollback"}
              /\ db' = db) ]_vars

(* An empty list was posted to an existing table *)
C7_Witness ==
    /\ IsBatchRequest(req, db)
    /\ req.body.updates # <<>>
    /\ Len(Items(req)) = 0
    /\ resp.status = 200

NumericParam(param) == param # <<>> /\ NumberOfText(param[1]) # NaN
Requested(param) == NumberOfText(param[1]).n

(* C8: for every numeric limit and offset the caller supplies, the page    *)
(* read of an existing table is answered, with meta.limit =                *)
(* min(500, max(1, limit)) and meta.offset = max(0, offset).               *)
C8_LimitOffsetClamped ==
    (/\ req.method = "GET"
     /\ ~UnsafeName(req.table)
     /\ req.table \in DOMAIN db
     /\ NumericParam(req.limit)
     /\ NumericParam(req.offset))
      => (/\ resp.status = 200
          /\ resp.meta.limit = Min(MaxPageLimit, Max(1, Requested(req.limit)))
          /\ resp.meta.offset = Max(0, Requested(req.offset)))

(* C9: two page reads of an unmodified table at offsets o and o + limit    *)
(* share no row and are, one after the other, the window of 2 * limit rows *)
(* at o of one ascending order of the table by its identifier.             *)
C9_AdjacentPagesPartition ==
    (/\ prevReq.method = "GET" /\ prevResp.status = 200
     /\ req.method = "GET" /\ resp.status = 200
     /\ req.table = prevReq.table
     /\ resp.meta.limit = prevResp.meta.limit
     /\ resp.meta.offset = prevResp.meta.offset + prevResp.meta.limit)
      => (/\ \A i \in 1..Len(prevResp.rids), j \in 1..Len(resp.rids) :
                prevResp.rids[i] # resp.rids[j]
          /\ \E ord \in SortedOrders(db[req.table],
                                     OrderColumn(getTableMetadata(db, req.table))) :
                prevResp.rids \o resp.rids
                  = Window(ord, 2 * resp.meta.limit, prevResp.meta.offset))

(* C10: the identity column of a described table is the column of          *)
(* primary-key rank 1 when the table declares a key, and the sentinel      *)
(* __rowid__, with usesRowId, exactly when no column has a rank above 0.   *)
C10_IdentityIsRankOne ==
    (req.method = "GET" /\ resp.status = 200)
      => LET cols == resp.meta.columns
             keyed == \E i \in 1..Len(cols) : cols[i].pk > 0
         IN  /\ keyed => \E i \in 1..Len(cols) :
                            cols[i].pk = 1 /\ resp.meta.primaryKey = cols[i].name
             /\ ~keyed => resp.meta.primaryKey = ROWID_FIELD
             /\ resp.meta.usesRowId <=> ~keyed

(* C11: in every successful page read, usesRowId holds exactly when        *)
(* primaryKey is the sentinel __rowid__, every returned row carries the    *)
(* field __rowid__ exactly when usesRowId holds, and no declared column    *)
(* of the table bears the reserved name.                                   *)
C11_SentinelOutOfBand ==
    (req.method = "GET" /\ resp.status = 200)
      => (/\ resp.meta.usesRowId <=> (resp.meta.primaryKey = ROWID_FIELD)
          /\ \A i \in 1..Len(resp.rows) :
                (ROWID_FIELD \in DOMAIN resp.rows[i]) <=> resp.meta.usesRowId
          /\ ROWID_FIELD \notin ColNames(resp.meta.columns))

-----------------------------------------------------------------------------
(* normalizeValue: what the claims speak of *)

Returned == req.method = "normalizeValue" /\ resp # NoResp

(* The declared type contains the text, letter case ignored *)
TypeContains(type, sub) == includes(toLowerCase(type), sub)

IsNumericType(type) ==
    \/ TypeContains(type, <<"i","n","t">>) \/ TypeContains(type, <<"r","e","a","l">>)
    \/ TypeContains(type, <<"f","l","o","a">>) \/ TypeContains(type, <<"d","o","u","b">>)
IsBoolType(type) == TypeContains(type, <<"b","o","o","l">>)
IsTextType(type) ==
    \/ TypeContains(type, <<"c","h","a","r">>) \/ TypeContains(type, <<"t","e","x","t">>)
    \/ TypeContains(type, <<"c","l","o","b">>)

(* The text is NULL in some letter case *)
SpellsNull(t) ==
    /\ Len(t) = 4
    /\ t[1] \in {"N", "n"} /\ t[2] \in {"U", "u"} /\ t[3] \in {"L", "l"} /\ t[4] \in {"L", "l"}

(* A non-empty text that is a number *)
ParsesAsNumber(t) == t # <<>> /\ NumberOfText(t) # NaN

WordsForTrue == { <<"1">>, <<"t","r","u","e">>, <<"o","n">>, <<"y","e","s">> }
WordsForFalse == { <<"0">>, <<"f","a","l","s","e">>, <<"o","f","f">>, <<"n","o">> }

(* C12: a text that is empty after trimming normalizes to null for every   *)
(* declared type that contains none of char, text, clob (INTEGER, REAL,    *)
(* BOOLEAN and DATE among them) and stays the original text for an empty   *)
(* type and for a char, text or clob type.                                 *)
C12_EmptyToNull ==
    (Returned /\ IsStr(req.value) /\ trim(req.value.s) = <<>>)
      => IF req.columnType # <<>> /\ ~IsTextType(req.columnType)
         THEN resp.returned = Null
         ELSE resp.returned = req.value

(* C13: for every declared type, the empty and the text types included, a  *)
(* text whose trimmed form is NULL in any letter case normalizes to null.  *)
C13_NullLiteral ==
    (Returned /\ IsStr(req.value) /\ SpellsNull(trim(req.value.s)))
      => resp.returned = Null

(* " null " was normalized for a TEXT column *)
C13_Witness ==
    /\ Returned
    /\ req.value = Str(<<" ","n","u","l","l"," ">>)
    /\ req.columnType = TYPE_TEXT
    /\ resp.returned = Null

(* C14: for every declared type that contains int, real, floa or doub, a   *)
(* text whose trimmed form is a number normalizes to that number, and one  *)
(* that is no number (and not the NULL literal) is not rejected: it gets   *)
(* what the boolean rule gives it, and is the original text otherwise.     *)
C14_NumericParse ==
    (Returned /\ IsStr(req.value) /\ IsNumericType(req.columnType))
      => LET t == trim(req.value.s) IN
         /\ ParsesAsNumber(t) => resp.returned = NumberOfText(t)
         /\ (t # <<>> /\ NumberOfText(t) = NaN /\ ~SpellsNull(t))
              => resp.returned =
                   (IF IsBoolType(req.columnType) /\ toLowerCase(t) \in WordsForTrue
                    THEN Num(1)
                    ELSE IF IsBoolType(req.columnType) /\ toLowerCase(t) \in WordsForFalse
                    THEN Num(0)
                    ELSE req.value)

(* " 42 " became the number 42 for a DOUBLE column *)
C14_Witness ==
    /\ Returned
    /\ req.value = Str(<<" ","4","2"," ">>)
    /\ req.columnType = <<"D","O","U","B","L","E">>
    /\ resp.returned = Num(42)

(* C15, as stated: for every declared type containing bool, a text whose   *)
(* trimmed lower-cased form is 1, true, on or yes normalizes to 1, one     *)
(* that is 0, false, off or no to 0, and every other non-empty text is     *)
(* the original text.                                                      *)
C15_BooleanWordsAsStated ==
    (Returned /\ IsStr(req.value) /\ IsBoolType(req.columnType))
      => LET w == toLowerCase(trim(req.value.s)) IN
         /\ w \in WordsForTrue => resp.returned = Num(1)
         /\ w \in WordsForFalse => resp.returned = Num(0)
         /\ (w \notin WordsForTrue \cup WordsForFalse /\ w # <<>>)
              => resp.returned = req.value

(* C15, amended: as above, where the other non-empty texts that stay the   *)
(* original text are those that are not the NULL literal and, for a type   *)
(* that also contains int, real, floa or doub, not a number.               *)
C15_BooleanWords ==
    (Returned /\ IsStr(req.value) /\ IsBoolType(req.columnType))
      => LET w == toLowerCase(trim(req.value.s)) IN
         /\ w \in WordsForTrue => resp.returned = Num(1)
         /\ w \in WordsForFalse => resp.returned = Num(0)
         /\ (/\ w \notin WordsForTrue \cup WordsForFalse
             /\ w # <<>>
             /\ ~SpellsNull(trim(req.value.s))
             /\ ~(IsNumericType(req.columnType) /\ ParsesAsNumber(trim(req.value.s))))
              => resp.returned = req.value

(* " YES " became 1 for a BOOLEAN column *)
C15_Witness ==
    /\ Returned
    /\ req.value = Str(<<" ","Y","E","S"," ">>)
    /\ req.columnType = TYPE_BOOLEAN
    /\ resp.returned = Num(1)

(* C16: a value that is no text is returned unchanged for every declared   *)
(* type, and a text that is not the NULL literal, not a number for a       *)
(* numeric type, not a boolean word for a bool type and not empty for a    *)
(* declared non-text type is returned as the original, untrimmed text.     *)
C16_PassThrough ==
    Returned
      => /\ ~IsStr(req.value) => resp.returned = req.value
         /\ (/\ IsStr(req.value)
             /\ ~SpellsNull(trim(req.value.s))
             /\ ~(IsNumericType(req.columnType) /\ NumberOfText(trim(req.value.s)) # NaN)
             /\ ~(/\ IsBoolType(req.columnType)
                  /\ toLowerCase(trim(req.value.s)) \in WordsForTrue \cup WordsForFalse)
             /\ ~(/\ trim(req.value.s) = <<>>
                  /\ req.columnType # <<>>
                  /\ ~IsTextType(req.columnType)))
              => resp.returned = req.value

(* " abc " stayed " abc " for an INTEGER column *)
C16_Witness ==
    /\ Returned
    /\ req.value = Str(<<" ","a","b","c"," ">>)
    /\ req.columnType = TYPE_INTEGER
    /\ resp.returned = Str(<<" ","a","b","c"," ">>)

-----------------------------------------------------------------------------
(* A body that is no JSON, whose updates is no list, or one of whose       *)
(* updates has a key that is neither text nor number or a data that is no  *)
(* object *)
Malformed(body) ==
    \/ body.kind = "notjson"
    \/ /\ body.kind = "object"
       /\ body.updates # <<>>
       /\ \/ body.updates[1].t # "list"
          \/ \E i \in 1..Len(body.updates[1].items) :
                \/ body.updates[1].items[i].key.t \notin {"str", "num"}
                \/ body.updates[1].items[i].data.t # "obj"

(* C17: a batch update of an existing table with a malformed body is       *)
(* answered with a client error, never a server error, and changes no row. *)
C17_MalformedIsClientError ==
    [][ (/\ req'.method = "POST"
         /\ ~UnsafeName(req'.table)
         /\ req'.table \in DOMAIN db
         /\ Malformed(req'.body))
          => (resp'.status \in 400..499 /\ db' = db) ]_vars

(* C19: for every table shape and every edit, the update statement of the  *)
(* edit changes at most one row.                                           *)
C19_OneRowPerEdit ==
    req.method = "POST"
      => \A i \in 1..Len(trace) :
            trace[i].op = "update" => Cardinality(trace[i].rows) <= 1

(* C18: after a batch update succeeded, a page read that returns a row an  *)
(* edit of the batch addressed shows, in every column that edit set and no *)
(* other edit of the batch wrote, exactly the normalized value of the      *)
(* edit: normalizeValue(v, declared type of the column).                   *)
C18_RoundTrip ==
    (/\ prevReq.method = "POST" /\ prevResp.status = 200
     /\ req.method = "GET" /\ resp.status = 200
     /\ req.table = prevReq.table)
      => LET tbl == db[req.table]
             items == Items(prevReq)
         IN  \A j \in 1..Len(items) :
               \A c \in EditColumns(tbl, items[j]) :
                 \A i \in 1..Len(resp.rids) :
                   (/\ resp.rids[i] \in EditTargets(tbl, items[j])
                    /\ Writers(tbl, items, resp.rids[i], c) = {j})
                     => resp.rows[i][c]
                          = normalizeValue(items[j].data.m[c], ColByName(tbl.cols, c).type)

-----------------------------------------------------------------------------
(* The page: what the claims speak of *)

(* A request of the page ended in this step, and in an error *)
RequestFailed == fetches' # fetches /\ fetches' \subseteq fetches /\ status'.type = "error"

(* The user can ask again for what failed: the refresh button is enabled,  *)
(* and the save button is once no page is loading *)
CanReload == selectedTable # <<>>
CanSave == DOMAIN editedRows # {} /\ selectedTable # <<>> /\ tableData # <<>>

(* C20: when a page load or a save fails, the metadata and the page that   *)
(* were loaded before are still held afterwards, and the user can retry    *)
(* what failed: reload the table, and save again the edits not yet saved.  *)
C20_ErrorKeepsLoadedPage ==
    [][ RequestFailed
          => (/\ tableData' = tableData
              /\ (selectedTable # <<>> => CanReload')
              /\ (CanSave => CanSave')) ]_vars

(* The save button is enabled and handleSave goes through: the grid is     *)
(* ready with edits to save *)
ReadyToSave ==
    ~isLoading /\ DOMAIN editedRows # {} /\ selectedTable # <<>> /\ tableData # <<>>

(* The saves that end in this step, the loads that start in it *)
SavesEnded == {f \in fetches \ fetches' : f.kind = "save"}
LoadsStarted == {g \in fetches' \ fetches : g.kind = "load"}

ReloadStarted ==
    /\ isLoading'
    /\ \E g \in LoadsStarted :
          g.table = selectedTable /\ g.limit = limit /\ g.offset = offset

LoadsArrived == {f \in fetches \ fetches' : f.kind = "load" /\ status'.type # "error"}

(* Every pending edit is of a row of the page that is held *)
EditsAreOfHeldPage ==
    tableData # <<>> =>
        \A key \in DOMAIN editedRows :
            \E j \in DOMAIN tableData[1].rows :
                tableData[1].rows[j][tableData[1].meta.primaryKey] = key

(* C22: whenever a page load ends with a page, whatever started it, no     *)
(* edit is pending right afterwards; and at any time every pending edit is *)
(* of a row of the page that is held.                                      *)
C22_LoadClearsEdits ==
    [][ /\ (LoadsArrived # {} => DOMAIN editedRows' = {})
        /\ EditsAreOfHeldPage' ]_vars

(* A cell was edited, the page was asked for again (no save was ever       *)
(* sent), and it has arrived *)
C22_Witness ==
    /\ nedits > 0
    /\ nfetch = 3
    /\ tableData # <<>>
    /\ tableData[1].request.seq = 3
    /\ DOMAIN editedRows = {}

(* A cell is edited in this step *)
CellEdited == nedits' = nedits + 1

(* The identifiers whose pending entry this step has set *)
EntriesSet ==
    {k \in DOMAIN editedRows' : k \notin DOMAIN editedRows \/ editedRows'[k] # editedRows[k]}

(* The columns in which two rows differ *)
Differing(a, b) == {c \in DOMAIN a : a[c] # b[c]}

(* The row shown under identifier k is the pending entry of k *)
ShownIsPending ==
    tableData # <<>> =>
        \A k \in DOMAIN editedRows, j \in DOMAIN tableData[1].rows :
            tableData[1].rows[j][tableData[1].meta.primaryKey] = k
                => tableData[1].rows[j] = editedRows[k]

(* C23: the pending edits hold one entry per row identifier.  An edit of a *)
(* cell sets the entry of that row's identifier, and of no other, to the   *)
(* whole row as it was shown (with the earlier edits of that row) with the *)
(* one cell changed; every entry of another identifier stays as it was.    *)
C23_LastEditPerRow ==
    [][ CellEdited =>
          /\ DOMAIN editedRows \subseteq DOMAIN editedRows'
          /\ Cardinality(EntriesSet) = 1
          /\ \A k \in DOMAIN editedRows \ EntriesSet : editedRows'[k] = editedRows[k]
          /\ \A k \in EntriesSet :
                \E j \in DOMAIN tableData[1].rows :
                    /\ tableData[1].rows[j][tableData[1].meta.primaryKey] = k
                    /\ DOMAIN editedRows'[k] = DOMAIN tableData[1].rows[j]
                    /\ Cardinality(Differing(editedRows'[k], tableData[1].rows[j])) = 1
          /\ ShownIsPending' ]_vars

(* Two rows have been edited one after the other: both entries are pending *)
C23_Witness ==
    /\ nedits = 2
    /\ Cardinality(DOMAIN editedRows) = 2

(* The saves sent in this step *)
SavesSent == {g \in fetches' \ fetches : g.kind = "save"}

(* The identity values of the rows of the held page as they arrived *)
LoadedIdentities ==
    {tableData[1].loaded[j][tableData[1].meta.primaryKey] : j \in DOMAIN tableData[1].loaded}

(* No shown row and no pending entry has another value in the identity     *)
(* column than the row had when it arrived *)
IdentityKept ==
    tableData # <<>> =>
        /\ \A j \in DOMAIN tableData[1].rows :
              tableData[1].rows[j][tableData[1].meta.primaryKey]
                  = tableData[1].loaded[j][tableData[1].meta.primaryKey]
        /\ \A k \in DOMAIN editedRows :
              /\ k \in LoadedIdentities
              /\ editedRows[k][tableData[1].meta.primaryKey] = k

(* C24: after any edits, every update a save sends has as key the identity *)
(* value a row of the page had when the page arrived, and its data holds   *)
(* no value for the identity column; no pending edit has changed the       *)
(* identity column.                                                        *)
C24_IdentityNotEdited ==
    [][ /\ \A g \in SavesSent :
              /\ DOMAIN g.updates # {}
              /\ \A key \in DOMAIN g.updates :
                    /\ key \in LoadedIdentities
                    /\ tableData[1].meta.primaryKey \notin DOMAIN g.updates[key]
        /\ IdentityKept' ]_vars

(* Two cells have been edited and the save of these edits is on its way *)
C24_Witness ==
    /\ nedits = 2
    /\ \E f \in fetches : f.kind = "save" /\ f.edited = editedRows

(* No page request is on its way *)
NoLoadInFlight == \A f \in fetches : f.kind # "load"

(* The page held answers the request for the table, limit and offset that  *)
(* are selected now, which is the one issued last *)
PageIsCurrent ==
    /\ tableData[1].request.table = selectedTable
    /\ tableData[1].request.limit = limit
    /\ tableData[1].request.offset = offset

(* C27: once no page request is on its way, the page held is the answer to *)
(* the request issued last (the selected table, limit and offset): a late  *)
(* answer to an earlier request has not replaced it; and a save posts the  *)
(* edits of a page to the table that page was read from.                   *)
C27_NoStalePage ==
    [][ /\ (NoLoadInFlight' /\ tableData' # <<>> => PageIsCurrent')
        /\ \A g \in SavesSent : g.table = tableData[1].request.table ]_vars

(* The saves on their way *)
SavesInFlight == {f \in fetches : f.kind = "save"}

(* C28: at most one save is on its way at any time: while one is, no       *)
(* second save is started, so the same pending edits are never posted by   *)
(* two requests at once.                                                   *)
C28_OneSaveInFlight ==
    /\ Cardinality(SavesInFlight) <= 1
    /\ \A f, g \in SavesInFlight : f # g => f.edited # g.edited

-----------------------------------------------------------------------------
(* Batches: order and frame *)

(* The cells of a table that two or more edits of the batch write *)
CellsWrittenTwice(tbl, items) ==
    {cell \in (DOMAIN tbl.rows) \X ColNames(tbl.cols) :
        Cardinality(Writers(tbl, items, cell[1], cell[2])) >= 2}

(* The last edit of the batch that writes the cell *)
LastWriter(tbl, items, cell) == items[MaxOf(Writers(tbl, items, cell[1], cell[2]))]

(* C25: when two or more edits of a batch set the same column of the same  *)
(* row and the batch succeeds, the value stored in that cell is the        *)
(* normalized value of the last of them: normalizeValue(v, declared type). *)
C25_LaterEditWins ==
    [][ (IsBatchRequest(req', db) /\ resp'.status = 200)
          => \A cell \in CellsWrittenTwice(db[req'.table], Items(req')) :
                db'[req'.table].rows[cell[1]][cell[2]]
                  = normalizeValue(LastWriter(db[req'.table], Items(req'), cell).data.m[cell[2]],
                                   ColByName(db[req'.table].cols, cell[2]).type) ]_vars

-----------------------------------------------------------------------------
(* The storage handle *)

(* C26: in one process, in production or not, at most one connection is    *)
(* ever created, it is created by the first call of getDatabase and by no  *)
(* later one, none exists before that call, and every call returns it.     *)
C26_OneConnection ==
    /\ Cardinality(proc.created) <= 1
    /\ proc.created = (IF proc.calls = 0 THEN {} ELSE {1})
    /\ proc.returned = proc.created

(* Outside production the module was evaluated anew after a connection was *)
(* made, and getDatabase has been called again since *)
C26_Witness ==
    /\ ~proc.production
    /\ proc.cachedDb = <<>>
    /\ proc.globalDb # <<>>
    /\ proc.calls >= 3

(* C29: a batch that succeeds changes a cell only if some edit of the      *)
(* batch addresses the cell's row (its normalized identifier equals the    *)
(* row's identity value, as the storage compares them) and sets the cell's *)
(* column (declared, and not the identity column); everything else is as   *)
(* it was: the other cells, which rows there are and how many, the columns *)
(* of the table, and every other table.                                    *)
C29_BatchFrame ==
    [][ (IsBatchRequest(req', db) /\ resp'.status = 200)
          => (/\ DOMAIN db' = DOMAIN db
              /\ \A t \in DOMAIN db \ {req'.table} : db'[t] = db[t]
              /\ db'[req'.table].cols = db[req'.table].cols
              /\ DOMAIN db'[req'.table].rows = DOMAIN db[req'.table].rows
              /\ \A rid \in DOMAIN db[req'.table].rows :
                    /\ DOMAIN db'[req'.table].rows[rid] = DOMAIN db[req'.table].rows[rid]
                    /\ \A c \in DOMAIN db[req'.table].rows[rid] :
                          db'[req'.table].rows[rid][c] # db[req'.table].rows[rid][c]
                            => Writers(db[req'.table], Items(req'), rid, c) # {}) ]_vars

(* A batch succeeded that changed one row of three and left the others *)
C29_Witness ==
    /\ req.method = "POST"
    /\ resp.status = 200
    /\ resp.updated = 1
    /\ Cardinality(DOMAIN db[TBL].rows) = 3
    /\ \E i \in 1..Len(trace) : trace[i].op = "update" /\ Cardinality(trace[i].rows) = 1

(* C30: when the request of a batch update is sent a second time right     *)
(* after the first, with no other writer in between, the second call       *)
(* leaves the database as the first left it and answers as the first did:  *)
(* the same status and the same updated count.                             *)
C30_Idempotent ==
    [][ (nreq = 1 /\ req.method = "POST" /\ req'.method = "POST"
         /\ req'.table = req.table /\ req'.body = req.body)
          => (db' = db /\ resp' = resp) ]_vars

(* A batch of two edits was applied twice: both calls changed rows and     *)
(* answered with the same count *)
C30_Witness ==
    /\ nreq = 2
    /\ req = prevReq
    /\ IsBatchRequest(req, db)
    /\ Len(Items(req)) = 2
    /\ resp.status = 200
    /\ resp.updated >= 2
    /\ prevResp = resp

====
